---------------------------- MODULE Spec2Model ----------------------------
(***************************************************************************)
(* Model of the Snort-rule to PCRE translator (rules_to_pcre.cpp).         *)
(*                                                                         *)
(* Text is modelled as it is in the program: a std::string is a sequence   *)
(* of one-character strings, and every regular expression the program      *)
(* applies to its input (pcrecpp::RE) is translated into an operator that  *)
(* computes the same captures on such sequences.                           *)
(***************************************************************************)
EXTENDS Integers, Sequences, FiniteSets, TLC

(***************************************************************************)
(* Character classes used by the program's regular expressions.            *)
(***************************************************************************)
Digits == {"0", "1", "2", "3", "4", "5", "6", "7", "8", "9"}

UpperHex == {"A", "B", "C", "D", "E", "F"}

\* [A-F\d] of pipePattern and hexPattern
HexChars == Digits \cup UpperHex

Lower == {"a", "b", "c", "d", "e", "f", "g", "h", "i", "j", "k", "l", "m", "n", "o", "p", "q", "r", "s", "t", "u", "v", "w", "x", "y", "z"}

Upper == {"A", "B", "C", "D", "E", "F", "G", "H", "I", "J", "K", "L", "M", "N", "O", "P", "Q", "R", "S", "T", "U", "V", "W", "X", "Y", "Z"}

\* \w of the PCRE patterns
WordChars == Lower \cup Upper \cup Digits \cup {"_"}

\* the characters escapePattern matches
escapeChars == {".", "^", "$", "*", "+", "?", "(", ")", "[", "{", "\\", "/"}

\* std::string::npos; stands for SIZE_MAX, larger than every length and
\* parameter value that occurs
npos == 2147483647

(***************************************************************************)
(* Generic string helpers (std::string / pcrecpp::StringPiece).            *)
(***************************************************************************)
Tail0(s, n) == SubSeq(s, n + 1, Len(s))

\* lit occurs in s starting at index i (1-based)
OccursAt(s, i, lit) ==
  /\ i >= 1
  /\ i + Len(lit) - 1 <= Len(s)
  /\ \A j \in 1..Len(lit) : s[i + j - 1] = lit[j]

\* std::string::find(lit) != npos
Contains(s, lit) == \E i \in 1..Len(s) : OccursAt(s, i, lit)

\* least position at or after from where lit occurs, 0 when there is none
FindFrom(s, lit, from) ==
  LET least(P) == IF P = {} THEN 0 ELSE CHOOSE i \in P : \A j \in P : i <= j
  IN least({i \in from..Len(s) : OccursAt(s, i, lit)})

SetMax(S) == CHOOSE x \in S : \A y \in S : y <= x

SetMin(S) == CHOOSE x \in S : \A y \in S : x <= y

\* length of the longest run of characters of class C in s starting at i
RECURSIVE RunLen(_, _, _)
RunLen(s, i, C) ==
  IF i <= Len(s) /\ s[i] \in C THEN 1 + RunLen(s, i + 1, C) ELSE 0

DigitVal(c) ==
  CASE c = "0" -> 0 [] c = "1" -> 1 [] c = "2" -> 2 [] c = "3" -> 3 [] c = "4" -> 4
    [] c = "5" -> 5 [] c = "6" -> 6 [] c = "7" -> 7 [] c = "8" -> 8 [] c = "9" -> 9

DigitChar(n) ==
  CASE n = 0 -> "0" [] n = 1 -> "1" [] n = 2 -> "2" [] n = 3 -> "3" [] n = 4 -> "4"
    [] n = 5 -> "5" [] n = 6 -> "6" [] n = 7 -> "7" [] n = 8 -> "8" [] n = 9 -> "9"

\* conversion of a captured (\d+) into an integer argument
RECURSIVE ParseNat(_)
ParseNat(s) ==
  IF s = <<>> THEN 0
  ELSE 10 * ParseNat(SubSeq(s, 1, Len(s) - 1)) + DigitVal(s[Len(s)])

\* operator<< of a size_t into the stringstream: decimal digits
RECURSIVE FormatNat(_)
FormatNat(n) ==
  IF n < 10 THEN <<DigitChar(n)>> ELSE FormatNat(n \div 10) \o <<DigitChar(n % 10)>>

(***************************************************************************)
(* getContentPattern: the rewriting passes over a content literal.         *)
(***************************************************************************)
\* escapePattern.GlobalReplace("\\\\\\1", &contentString): every character
\* of escapeChars gets a backslash in front; count is the return value
RECURSIVE escapePattern(_)
escapePattern(s) ==
  IF s = <<>> THEN [str |-> <<>>, count |-> 0]
  ELSE LET r == escapePattern(Tail(s))
       IN IF Head(s) \in escapeChars
          THEN [str |-> <<"\\", Head(s)>> \o r.str, count |-> r.count + 1]
          ELSE [str |-> <<Head(s)>> \o r.str, count |-> r.count]

\* s matches (?:[A-F\d]{2} ?)* as a whole
RECURSIVE IsHexRun(_)
IsHexRun(s) ==
  \/ s = <<>>
  \/ /\ Len(s) >= 2
     /\ s[1] \in HexChars
     /\ s[2] \in HexChars
     /\ \/ IsHexRun(Tail0(s, 2))
        \/ Len(s) >= 3 /\ s[3] = " " /\ IsHexRun(Tail0(s, 3))

\* hexPattern.GlobalReplace("\\\\x\\1", &isRaw): every pair of hex digits,
\* with the blank after it if there is one, becomes \xHH
RECURSIVE hexPattern(_)
hexPattern(s) ==
  IF s = <<>> THEN [str |-> <<>>, count |-> 0]
  ELSE IF Len(s) >= 2 /\ s[1] \in HexChars /\ s[2] \in HexChars
       THEN LET used == IF Len(s) >= 3 /\ s[3] = " " THEN 3 ELSE 2
                r == hexPattern(Tail0(s, used))
            IN [str |-> <<"\\", "x", s[1], s[2]>> \o r.str, count |-> r.count + 1]
       ELSE LET r == hexPattern(Tail(s))
            IN [str |-> <<Head(s)>> \o r.str, count |-> r.count]

\* position of the pipe that closes a hex run opened by the pipe at i, or 0
pipeClose(s, i) ==
  LET close(j) == IF j > 0 /\ IsHexRun(SubSeq(s, i + 1, j - 1)) THEN j ELSE 0
  IN close(FindFrom(s, <<"|">>, i + 1))

\* pipePattern "(.*)\|((?:[A-F\d]{2} ?)*)\|": the greedy (.*) makes the
\* match end at the last pipe pair; open = position of its opening pipe
pipePattern(s) ==
  LET split(o, c) == [found |-> TRUE,
                      prefix |-> SubSeq(s, 1, o - 1),
                      isRaw |-> SubSeq(s, o + 1, c - 1),
                      rest |-> Tail0(s, c)]
      last(O) == IF O = {} THEN [found |-> FALSE]
                 ELSE split(SetMax(O), pipeClose(s, SetMax(O)))
  IN last({i \in 1..Len(s) : s[i] = "|" /\ pipeClose(s, i) > 0})

\* while (pipePattern.FindAndConsume(&contentSP, &prefix, &isRaw)) { ... }
RECURSIVE pipeLoop(_, _)
pipeLoop(s, hexCount) ==
  LET replaced(m, h) == pipeLoop(m.prefix \o h.str \o m.rest, hexCount + h.count)
      body(m) == IF ~m.found THEN [str |-> s, count |-> hexCount]
                 ELSE replaced(m, hexPattern(m.isRaw))
  IN body(pipePattern(s))


(***************************************************************************)
(* getContentPattern: decomposition of one pattern specifier.              *)
(***************************************************************************)
\* contentPattern "content:(!?)\"(.*)\"" consumed from the start of the
\* specifier; the greedy (.*) runs to the last double quote
contentPattern(s) ==
  LET captures(neg, q, Q) ==
        IF OccursAt(s, 1, <<"c", "o", "n", "t", "e", "n", "t", ":">>) /\ OccursAt(s, q, <<"\"">>) /\ Q # {}
        THEN [found |-> TRUE, negation |-> neg,
              contentString |-> SubSeq(s, q + 1, SetMax(Q) - 1),
              rest |-> Tail0(s, SetMax(Q))]
        ELSE [found |-> FALSE]
      quoted(neg, q) == captures(neg, q, {j \in (q + 1)..Len(s) : s[j] = "\""})
      negated(neg) == quoted(neg, IF neg THEN 10 ELSE 9)
  IN negated(OccursAt(s, 9, <<"!", "\"">>))

paramNames == <<<<"o", "f", "f", "s", "e", "t", ":">>, <<"d", "e", "p", "t", "h", ":">>, <<"d", "i", "s", "t", "a", "n", "c", "e", ":">>, <<"w", "i", "t", "h", "i", "n", ":">>>>

\* contentParamPattern "(offset|depth|distance|within):(\d+)": leftmost
\* parameter name that is directly followed by at least one digit
contentParamPattern(s) ==
  LET digitsAt(i, n) == i + Len(paramNames[n])
      captures(n, d, r) == [found |-> TRUE, param |-> n,
                            value |-> ParseNat(SubSeq(s, d, d + r - 1)),
                            rest |-> Tail0(s, d + r - 1)]
      named(i, n) == captures(n, digitsAt(i, n), RunLen(s, digitsAt(i, n), Digits))
      at(i) == named(i, CHOOSE n \in 1..4 : OccursAt(s, i, paramNames[n]))
      leftmost(M) == IF M = {} THEN [found |-> FALSE] ELSE at(SetMin(M))
  IN leftmost({i \in 1..Len(s) :
                 \E n \in 1..4 : /\ OccursAt(s, i, paramNames[n])
                                 /\ RunLen(s, digitsAt(i, n), Digits) > 0})

\* the loop over contentParamPattern.FindAndConsume (lines 177-196);
\* acc holds offset, depth, relativePattern and the error raised, if any
RECURSIVE paramLoop(_, _)
paramLoop(s, acc) ==
  LET body(m) ==
        IF ~m.found THEN acc
        ELSE IF m.value < 0 THEN [acc EXCEPT !.err = "negative"]
        ELSE paramLoop(m.rest,
               CASE m.param = 1 -> [acc EXCEPT !.offset = m.value]
                 [] m.param = 2 -> [acc EXCEPT !.depth = m.value]
                 [] m.param = 3 -> [acc EXCEPT !.offset = m.value, !.relativePattern = TRUE]
                 [] m.param = 4 -> [acc EXCEPT !.depth = m.value, !.relativePattern = TRUE])
  IN body(contentParamPattern(s))

\* the gap with the window end taken as offset + depth, the length of the
\* literal not subtracted
contentGapWide(offset, depth, relativePattern, contentSize) ==
  LET repetition(end) ==
        (IF ~relativePattern THEN <<"^">> ELSE <<>>)
        \o (IF (offset > 0) \/ (end > offset)
            THEN <<".", "{">> \o FormatNat(offset)
                 \o (IF end > offset THEN <<",">> \o FormatNat(end) ELSE <<>>)
                 \o <<"}">>
            ELSE <<>>)
        \o (IF depth = npos THEN <<".", "*">> ELSE <<>>)
  IN IF (offset > 0) \/ (depth < npos)
     THEN repetition(IF depth # npos THEN offset + depth ELSE 0)
     ELSE IF relativePattern THEN <<".", "*">> ELSE <<>>

\* the gap in front of a literal, lines 205-227
contentGap(offset, depth, relativePattern, contentSize) ==
  LET repetition(end) ==
        (IF ~relativePattern THEN <<"^">> ELSE <<>>)
        \o (IF (offset > 0) \/ (end > offset)
            THEN <<".", "{">> \o FormatNat(offset)
                 \o (IF end > offset THEN <<",">> \o FormatNat(end) ELSE <<>>)
                 \o <<"}">>
            ELSE <<>>)
        \o (IF depth = npos THEN <<".", "*">> ELSE <<>>)
  IN IF (offset > 0) \/ (depth < npos)
     THEN repetition(IF depth # npos THEN (offset + depth) - contentSize ELSE 0)
     ELSE IF relativePattern THEN <<".", "*">> ELSE <<>>

\* the size with the hex escapes counted as two characters too few
contentSizeOfTwo(contentString, escapePatternCount, hexPatternCount) ==
  Len(contentString) - (escapePatternCount * 1) - (hexPatternCount * 2)

\* line 206: the length of the literal in payload bytes
contentSizeOf(contentString, escapePatternCount, hexPatternCount) ==
  Len(contentString) - (escapePatternCount * 1) - (hexPatternCount * 3)

\* the depth check with <= in place of <
depthTooSmallOrEqual(depth, contentSize) == depth <= contentSize

\* line 207
depthTooSmall(depth, contentSize) == depth < contentSize

NoElement == [err |-> "", negation |-> FALSE, thisPattern |-> <<>>,
              relativePattern |-> FALSE, contentSize |-> -1]

\* the content branch of the loop body, lines 158-232
contentElement(s) ==
  LET build(negation, thisModifiers, contentString, contentSize, p) ==
        IF p.err # "" THEN [NoElement EXCEPT !.err = p.err, !.negation = negation]
        ELSE IF ((p.offset > 0) \/ (p.depth < npos)) /\ depthTooSmall(p.depth, contentSize)
        THEN [NoElement EXCEPT !.err = "depth", !.negation = negation,
                               !.relativePattern = p.relativePattern,
                               !.contentSize = contentSize]
        ELSE [err |-> "", negation |-> negation,
              thisPattern |->
                (IF thisModifiers # <<>> THEN <<"(", "?">> \o thisModifiers \o <<":">> ELSE <<>>)
                \o contentGap(p.offset, p.depth, p.relativePattern, contentSize)
                \o contentString
                \o (IF thisModifiers # <<>> THEN <<")">> ELSE <<>>),
              relativePattern |-> p.relativePattern,
              contentSize |-> IF (p.offset > 0) \/ (p.depth < npos) THEN contentSize ELSE -1]
      rewritten(m, e, h) ==
        build(m.negation,
              IF Contains(m.rest, <<"n", "o", "c", "a", "s", "e", ";">>) THEN <<"i">> ELSE <<>>,
              h.str,
              contentSizeOf(h.str, e.count, h.count),
              paramLoop(m.rest, [offset |-> 0, depth |-> npos,
                                 relativePattern |-> FALSE, err |-> ""]))
      escaped(m, e) == rewritten(m, e, pipeLoop(e.str, 0))
      consumed(m) == IF ~m.found THEN [NoElement EXCEPT !.err = "content"]
                     ELSE escaped(m, escapePattern(m.contentString))
  IN consumed(contentPattern(s))

\* pcrePattern "pcre:(!?)\"\/(.*)[\/]?(\w*)\"" with PCRE_UNGREEDY, consumed
\* from the start: the shortest pattern text for which an optional slash
\* and a run of word characters reach a double quote
pcrePattern(s) ==
  LET ok(p0, a, b) ==
        /\ (b = 1 => OccursAt(s, p0 + a, <<"/">>))
        /\ OccursAt(s, p0 + a + b + RunLen(s, p0 + a + b, WordChars), <<"\"">>)
      captures(neg, p0, a, q) ==
        [found |-> TRUE, negation |-> neg,
         thisPattern |-> SubSeq(s, p0, p0 + a - 1),
         thisModifiers |-> SubSeq(s, q, q + RunLen(s, q, WordChars) - 1)]
      shortest(neg, p0, a) == captures(neg, p0, a, IF ok(p0, a, 0) THEN p0 + a ELSE p0 + a + 1)
      lazy(neg, p0, A) ==
        IF OccursAt(s, 1, <<"p", "c", "r", "e", ":">>) /\ OccursAt(s, p0 - 2, <<"\"", "/">>) /\ A # {}
        THEN shortest(neg, p0, SetMin(A))
        ELSE [found |-> FALSE]
      from(neg, p0) == lazy(neg, p0, {a \in 0..(Len(s) - p0 + 1) : ok(p0, a, 0) \/ ok(p0, a, 1)})
      negated(neg) == from(neg, IF neg THEN 9 ELSE 8)
  IN negated(~OccursAt(s, 6, <<"\"", "/">>) /\ OccursAt(s, 6, <<"!", "\"", "/">>))

\* thisModifiers.replace(index, 1, "") at the first 'R'
removeR(mods) ==
  LET erase(i) == IF i = 0 THEN mods ELSE SubSeq(mods, 1, i - 1) \o Tail0(mods, i)
  IN erase(FindFrom(mods, <<"R">>, 1))

\* the pcre branch without the modifier group around the pattern
pcreElementBare(s) ==
  LET consumed(m) ==
        IF ~m.found THEN [NoElement EXCEPT !.err = "pcre"]
        ELSE [err |-> "", negation |-> m.negation,
              thisPattern |-> m.thisPattern,
              relativePattern |-> Contains(m.thisModifiers, <<"R">>),
              contentSize |-> -1]
  IN consumed(pcrePattern(s))

\* the pcre branch of the loop body, lines 234-248
pcreElement(s) ==
  LET wrapped(m, thisModifiers) ==
        [err |-> "", negation |-> m.negation,
         thisPattern |-> IF thisModifiers # <<>>
                         THEN <<"(", "?">> \o thisModifiers \o <<":">> \o m.thisPattern \o <<")">>
                         ELSE m.thisPattern,
         relativePattern |-> Contains(m.thisModifiers, <<"R">>),
         contentSize |-> -1]
      consumed(m) == IF ~m.found THEN [NoElement EXCEPT !.err = "pcre"]
                     ELSE wrapped(m, removeR(m.thisModifiers))
  IN consumed(pcrePattern(s))

\* one iteration of the loop over patternVector up to the negation
\* wrapping, lines 149-251
patternElement(s) ==
  LET negate(e) == IF e.err = "" /\ e.negation
                   THEN [e EXCEPT !.thisPattern = <<"(", "?", "!">> \o e.thisPattern \o <<")">>]
                   ELSE e
  IN negate(IF OccursAt(s, 1, <<"c", "o", "n", "t", "e", "n", "t">>) THEN contentElement(s) ELSE pcreElement(s))

\* every pattern pushed as its own element
attachPush(independentPatterns, e) == Append(independentPatterns, e.thisPattern)

\* lines 252-257: a relative pattern is appended to the last independent
\* pattern, any other pattern is pushed
attach(independentPatterns, e) ==
  IF e.relativePattern /\ Len(independentPatterns) > 0
  THEN [independentPatterns EXCEPT ![Len(independentPatterns)] = @ \o e.thisPattern]
  ELSE Append(independentPatterns, e.thisPattern)

\* the loop of lines 263-265 over p = from .. numPatterns - 2 (0-based)
RECURSIVE lookaheads(_, _)
lookaheads(independentPatterns, p) ==
  IF p >= Len(independentPatterns) THEN <<>>
  ELSE <<"(", "?", "=", ".", "*">> \o independentPatterns[p] \o <<")">> \o lookaheads(independentPatterns, p + 1)

\* the combination with the loop running over all the patterns
combineAll(independentPatterns) ==
  LET numPatterns == Len(independentPatterns)
  IN (IF numPatterns > 1
      THEN lookaheads(independentPatterns, 1)
           \o <<"(", "?", "=", ".", "*">> \o independentPatterns[numPatterns] \o <<")">> \o <<".", "*">>
      ELSE <<>>)
     \o independentPatterns[numPatterns]

\* lines 260-270; the function is only called on non-empty vectors
combine(independentPatterns) ==
  LET numPatterns == Len(independentPatterns)
  IN (IF numPatterns > 1
      THEN lookaheads(independentPatterns, 1) \o <<".", "*">>
      ELSE <<>>)
     \o independentPatterns[numPatterns]

\* getContentPattern as a function of its argument: the pattern string, or
\* the std::runtime_error it throws
RECURSIVE compileFrom(_, _, _)
compileFrom(patternVector, k, independentPatterns) ==
  LET body(e) == IF e.err # "" THEN [err |-> e.err, patternString |-> <<>>]
                 ELSE compileFrom(patternVector, k + 1, attach(independentPatterns, e))
  IN IF k > Len(patternVector)
     THEN [err |-> "", patternString |-> combine(independentPatterns)]
     ELSE body(patternElement(patternVector[k]))

getContentPattern(patternVector) == compileFrom(patternVector, 1, <<>>)


(***************************************************************************)
(* The keyword tables, lines 14-92.                                        *)
(***************************************************************************)
separatorKeywords ==
  << <<"h", "t", "t", "p", "_", "c", "l", "i", "e", "n", "t", "_", "b", "o", "d", "y">>, <<"h", "t", "t", "p", "_", "c", "o", "o", "k", "i", "e">>, <<"h", "t", "t", "p", "_", "r", "a", "w", "_", "c", "o", "o", "k", "i", "e">>,
     <<"h", "t", "t", "p", "_", "h", "e", "a", "d", "e", "r">>, <<"h", "t", "t", "p", "_", "r", "a", "w", "_", "h", "e", "a", "d", "e", "r">>, <<"h", "t", "t", "p", "_", "m", "e", "t", "h", "o", "d">>,
     <<"h", "t", "t", "p", "_", "u", "r", "i">>, <<"h", "t", "t", "p", "_", "r", "a", "w", "_", "u", "r", "i">>, <<"h", "t", "t", "p", "_", "s", "t", "a", "t", "_", "c", "o", "d", "e">>,
     <<"h", "t", "t", "p", "_", "s", "t", "a", "t", "_", "m", "s", "g">>, <<"p", "k", "t", "_", "d", "a", "t", "a">>, <<"f", "i", "l", "e", "_", "d", "a", "t", "a">> >>

rawSeparatorKeywords ==
  << <<>>, <<"h", "t", "t", "p", "_", "r", "a", "w", "_", "c", "o", "o", "k", "i", "e">>, <<"h", "t", "t", "p", "_", "r", "a", "w", "_", "c", "o", "o", "k", "i", "e">>,
     <<"h", "t", "t", "p", "_", "r", "a", "w", "_", "h", "e", "a", "d", "e", "r">>, <<"h", "t", "t", "p", "_", "r", "a", "w", "_", "h", "e", "a", "d", "e", "r">>, <<>>,
     <<"h", "t", "t", "p", "_", "r", "a", "w", "_", "u", "r", "i">>, <<"h", "t", "t", "p", "_", "r", "a", "w", "_", "u", "r", "i">>, <<>>,
     <<>>, <<>>, <<>> >>

\* "" stands for '\0'
separatorModifiers == <<"P", "C", "K", "H", "D", "M", "U", "I", "S", "Y", "", "">>

\* std::map::insert keeps the first value inserted for a key
getRawKeywordsMap ==
  [kw \in {rawSeparatorKeywords[i] : i \in {j \in 1..12 : rawSeparatorKeywords[j] # <<>>}} |->
     separatorKeywords[SetMin({i \in 1..12 : rawSeparatorKeywords[i] = kw})]]

\* the bimap as a set of (keyword, index) pairs; index counts, from 1, the
\* keywords that are not a key of the raw keywords map
getSeparatorKeywordIndices ==
  LET kept == {i \in 1..12 : separatorKeywords[i] \notin DOMAIN getRawKeywordsMap}
  IN {<<separatorKeywords[i], Cardinality({j \in kept : j <= i})>> : i \in kept}

\* separatorKeywordIndices.left.find(keyword)->second
leftFind(keyword) ==
  (CHOOSE p \in getSeparatorKeywordIndices : p[1] = keyword)[2]

\* the indices for which separatorKeywordIndices.right.find succeeds
rightKeys == {p[2] : p \in getSeparatorKeywordIndices}

rightFind(index) ==
  (CHOOSE p \in getSeparatorKeywordIndices : p[2] = index)[1]

\* modifier character -> position in separatorModifiers (i + 1)
getSeparatorModifierIndices ==
  [m \in {separatorModifiers[i] : i \in {j \in 1..12 : separatorModifiers[j] # ""}} |->
     SetMin({i \in 1..12 : separatorModifiers[i] = m})]

(***************************************************************************)
(* main: the regular expressions applied to the option text of a rule.     *)
(***************************************************************************)
\* sidPattern "sid:(\d+);"
sidPattern(s) ==
  LET captures(i) == [found |-> TRUE,
                      sid |-> ParseNat(SubSeq(s, i + 4, i + 3 + RunLen(s, i + 4, Digits)))]
      leftmost(M) == IF M = {} THEN [found |-> FALSE] ELSE captures(SetMin(M))
  IN leftmost({i \in 1..Len(s) :
                 /\ OccursAt(s, i, <<"s", "i", "d", ":">>)
                 /\ RunLen(s, i + 4, Digits) > 0
                 /\ OccursAt(s, i + 4 + RunLen(s, i + 4, Digits), <<";">>)})

\* positions where a clause keyword, "content:" or "pcre:", starts
clauseStarts(s, from) ==
  {i \in from..Len(s) : OccursAt(s, i, <<"c", "o", "n", "t", "e", "n", "t", ":">>) \/ OccursAt(s, i, <<"p", "c", "r", "e", ":">>)}

\* main's contentPattern "((content|pcre):.*)(content:|pcre:|$)" with
\* PCRE_UNGREEDY: the clause from its keyword up to the next clause keyword
\* or the end; rest is nextContent followed by what was not consumed
clausePattern(s) ==
  LET captures(st, type, nx) == [found |-> TRUE, type |-> type,
                                 thisContent |-> SubSeq(s, st, nx - 1),
                                 rest |-> Tail0(s, nx - 1)]
      lazy(st, type, N) == captures(st, type, IF N = {} THEN Len(s) + 1 ELSE SetMin(N))
      typed(st, type) == lazy(st, type, clauseStarts(s, st + (IF type = "content" THEN 8 ELSE 5)))
      at(st) == typed(st, IF OccursAt(s, st, <<"c", "o", "n", "t", "e", "n", "t", ":">>) THEN "content" ELSE "pcre")
      leftmost(S) == IF S = {} THEN [found |-> FALSE] ELSE at(SetMin(S))
  IN leftmost(clauseStarts(s, 1))

\* keywordPattern "(http_client_body|...|file_data)": the leftmost keyword
keywordPattern(s) ==
  LET at(i) == [found |-> TRUE,
                keyword |-> separatorKeywords[
                  SetMin({n \in 1..12 : OccursAt(s, i, separatorKeywords[n])})]]
      leftmost(M) == IF M = {} THEN [found |-> FALSE] ELSE at(SetMin(M))
  IN leftmost({i \in 1..Len(s) : \E n \in 1..12 : OccursAt(s, i, separatorKeywords[n])})

\* main's pcrePattern "(pcre:\"\/.*\/\w*)(C|D|...|Y)(\w*\")" consumed from
\* the start: greedy, so the last slash and after it the last modifier
\* character from which word characters lead to a double quote
modifierPattern(s) ==
  LET quote(i) == i + 1 + RunLen(s, i + 1, WordChars)
      captures(m, q) == [found |-> TRUE,
                         pcreString |-> SubSeq(s, 1, m - 1),
                         modifier |-> s[m],
                         suffix |-> SubSeq(s, m + 1, q),
                         rest |-> Tail0(s, q)]
      lastModifier(m) == captures(m, quote(m))
      lastSlash(C, sl) == lastModifier(SetMax({c.m : c \in {d \in C : d.slash = sl}}))
      greedy(C) == IF OccursAt(s, 1, <<"p", "c", "r", "e", ":", "\"", "/">>) /\ C # {}
                   THEN lastSlash(C, SetMax({c.slash : c \in C}))
                   ELSE [found |-> FALSE]
  IN greedy({c \in [slash : 8..Len(s), m : 8..Len(s)] :
               /\ s[c.slash] = "/"
               /\ c.m > c.slash
               /\ c.m <= c.slash + RunLen(s, c.slash + 1, WordChars)
               /\ s[c.m] \in DOMAIN getSeparatorModifierIndices
               /\ OccursAt(s, quote(c.m), <<"\"">>)})

\* lines 321-352: the buffer key and the text stored for one clause;
\* option is the whole option text of the rule
classify(type, thisContent, option) ==
  LET content(kw, raw) ==
        [index |-> IF kw.found
                   THEN leftFind(IF raw THEN getRawKeywordsMap[kw.keyword] ELSE kw.keyword)
                   ELSE 0,
         isRaw |-> raw \/ Contains(option, <<"r", "a", "w", "b", "y", "t", "e", "s", ";">>),
         text |-> thisContent]
      keyword(kw) == content(kw, kw.found /\ kw.keyword \in DOMAIN getRawKeywordsMap)
      pcre(m) == IF m.found
                 THEN [index |-> getSeparatorModifierIndices[m.modifier], isRaw |-> FALSE,
                       text |-> m.pcreString \o m.suffix \o m.rest]
                 ELSE [index |-> 0, isRaw |-> FALSE, text |-> thisContent]
  IN IF type = "content" THEN keyword(keywordPattern(thisContent))
     ELSE pcre(modifierPattern(thisContent))

\* contentVectors[std::make_pair(index, isRaw)].push_back(text)
pushBack(cv, key, text) ==
  IF key \in DOMAIN cv THEN [cv EXCEPT ![key] = Append(@, text)]
  ELSE [x \in DOMAIN cv \cup {key} |-> IF x = key THEN <<text>> ELSE cv[x]]

\* the while loop of lines 320-355
RECURSIVE segmentLoop(_, _, _)
segmentLoop(optionString, option, cv) ==
  LET push(c, a) == segmentLoop(c.rest, option, pushBack(cv, <<a.index, a.isRaw>>, a.text))
      body(c) == IF optionString = <<>> \/ ~c.found THEN cv
                 ELSE push(c, classify(c.type, c.thisContent, option))
  IN body(clausePattern(optionString))

\* the order of std::map<std::pair<size_t, bool>, ...>
KeyLess(a, b) == a[1] < b[1] \/ (a[1] = b[1] /\ ~a[2] /\ b[2])

FirstKey(K) == CHOOSE a \in K : \A b \in K \ {a} : KeyLess(a, b)

\* lines 361-367, for an index that has a keyword
outputFileOf(key) ==
  (IF key[1] > 0 THEN rightFind(key[1]) ELSE <<"p", "a", "y", "l", "o", "a", "d">>)
  \o (IF key[2] THEN <<"_", "r", "a", "w">> ELSE <<>>)

\* lines 369-380: the destination and the line written to it
record(writeFiles, outputFile, sid, patternString) ==
  [dest |-> IF writeFiles THEN outputFile \o <<".", "p", "c", "o", "r", "t">> ELSE <<"s", "t", "d", "o", "u", "t">>,
   sid |-> sid, patternString |-> patternString]

\* the catch block giving up the remaining groups of the rule
afterCatchAbort(pending, key) == {}

\* the groups still to visit after the catch block of lines 382-386: the
\* for loop goes on with the next group
afterCatch(pending, key) == pending \ {key}


(***************************************************************************)
(* Inputs.  A condition is described by its fields and rendered into the   *)
(* rule text the program reads; the program only ever sees the text.       *)
(***************************************************************************)
MaxItems == 2

MaxOffset == 1

MaxDepth == 3

MaxSpecs == 2

\* the pieces a content literal is made of: text as written in the rule and
\* the payload bytes it stands for
Items ==
  { [text |-> <<"a">>, bytes |-> <<"a">>],
    [text |-> <<".">>, bytes |-> <<".">>],
    [text |-> <<"A", "B">>, bytes |-> <<"A", "B">>],
    [text |-> <<"|", "4", "1", "|">>, bytes |-> <<"A">>],
    [text |-> <<"|", "4", "1", " ", "4", "2", "|">>, bytes |-> <<"A", "B">>],
    [text |-> <<"|", "4", "1", "4", "2", "|">>, bytes |-> <<"A", "B">>] }

RECURSIVE ItemSeqs(_)
ItemSeqs(n) ==
  IF n = 0 THEN {<<>>}
  ELSE {<<>>} \cup {<<i>> \o s : i \in Items, s \in ItemSeqs(n - 1)}

Literals == ItemSeqs(MaxItems) \ {<<>>}

RECURSIVE LitText(_)
LitText(lit) == IF lit = <<>> THEN <<>> ELSE Head(lit).text \o LitText(Tail(lit))

RECURSIVE LitBytes(_)
LitBytes(lit) == IF lit = <<>> THEN <<>> ELSE Head(lit).bytes \o LitBytes(Tail(lit))

Param(n, v) == [name |-> n, neg |-> FALSE, val |-> v]

NegParam(n, v) == [name |-> n, neg |-> TRUE, val |-> v]

Content(negated, nocase, lit, params) ==
  [kind |-> "content", negated |-> negated, nocase |-> nocase, lit |-> lit,
   params |-> params, pattern |-> <<>>, mods |-> <<>>]

Pcre(negated, pattern, mods) ==
  [kind |-> "pcre", negated |-> negated, nocase |-> FALSE, lit |-> <<>>,
   params |-> <<>>, pattern |-> pattern, mods |-> mods]

\* clauses that do not have the form of a content or a pcre option
BadContent == [Content(FALSE, FALSE, <<>>, <<>>) EXCEPT !.kind = "badcontent"]

BadPcre == [Pcre(FALSE, <<>>, <<>>) EXCEPT !.kind = "badpcre"]

RECURSIVE RenderParams(_)
RenderParams(ps) ==
  IF ps = <<>> THEN <<>>
  ELSE <<" ">> \o paramNames[Head(ps).name]
       \o (IF Head(ps).neg THEN <<"-">> ELSE <<>>)
       \o FormatNat(Head(ps).val) \o <<";">> \o RenderParams(Tail(ps))

\* the text of one option of a rule
Render(c) ==
  CASE c.kind = "content" ->
         <<"c", "o", "n", "t", "e", "n", "t", ":">> \o (IF c.negated THEN <<"!">> ELSE <<>>)
         \o <<"\"">> \o LitText(c.lit) \o <<"\"", ";">>
         \o RenderParams(c.params)
         \o (IF c.nocase THEN <<" ", "n", "o", "c", "a", "s", "e", ";">> ELSE <<>>)
    [] c.kind = "pcre" ->
         <<"p", "c", "r", "e", ":">> \o (IF c.negated THEN <<"!">> ELSE <<>>)
         \o <<"\"", "/">> \o c.pattern \o <<"/">> \o c.mods \o <<"\"", ";">>
    [] c.kind = "badcontent" -> <<"c", "o", "n", "t", "e", "n", "t", ":", "a", ";">>
    [] c.kind = "badpcre" -> <<"p", "c", "r", "e", ":", "\"", "b", "\"", ";">>

RenderAll(g) == [i \in 1..Len(g) |-> Render(g[i])]

LitA == <<[text |-> <<"a">>, bytes |-> <<"a">>]>>

LitHex == <<[text |-> <<"|", "4", "1", " ", "4", "2", "|">>, bytes |-> <<"A", "B">>]>>

\* single literal-content conditions over all literals and all windows
WindowSpecs ==
  { Content(FALSE, FALSE, lit, ps) :
      lit \in Literals,
      ps \in { <<Param(2, d)>> : d \in 0..MaxDepth }
             \cup { <<Param(1, o), Param(2, d)>> : o \in 0..MaxOffset, d \in 0..MaxDepth }
             \cup { <<Param(4, d)>> : d \in 0..MaxDepth }
             \cup { <<Param(3, o), Param(4, d)>> : o \in 0..MaxOffset, d \in 0..MaxDepth } }

\* the conditions combined into groups of several
GroupSpecs ==
  { Content(FALSE, FALSE, LitA, <<>>),
    Content(TRUE, FALSE, LitA, <<>>),
    Content(FALSE, TRUE, LitHex, <<>>),
    Content(FALSE, FALSE, LitA, <<Param(1, 1)>>),
    Content(FALSE, FALSE, LitHex, <<Param(1, 1), Param(2, 3)>>),
    Content(FALSE, FALSE, LitHex, <<Param(2, 1)>>),
    Content(FALSE, FALSE, LitA, <<Param(3, 0)>>),
    Content(FALSE, FALSE, LitA, <<Param(3, 1), Param(4, 2)>>),
    Content(TRUE, FALSE, LitA, <<Param(4, 2)>>),
    Content(FALSE, FALSE, LitA, <<NegParam(1, 1)>>),
    Content(FALSE, FALSE, LitA, <<NegParam(3, 1)>>),
    Content(FALSE, FALSE, LitA, <<NegParam(2, 1)>>),
    Pcre(FALSE, <<"b">>, <<>>),
    Pcre(FALSE, <<"b">>, <<"i">>),
    Pcre(FALSE, <<"b">>, <<"R">>),
    Pcre(TRUE, <<"b">>, <<"i", "R">>),
    Pcre(TRUE, <<"b">>, <<>>),
    BadContent,
    BadPcre }

RECURSIVE SpecSeqs(_)
SpecSeqs(n) ==
  IF n = 0 THEN {<<>>}
  ELSE {<<>>} \cup {<<c>> \o s : c \in GroupSpecs, s \in SpecSeqs(n - 1)}

Groups == {<<c>> : c \in WindowSpecs} \cup (SpecSeqs(MaxSpecs) \ {<<>>})

\* a clause of a rule: a condition, the buffer selector keyword that follows
\* it (kw, 0 for none) or the buffer modifier of its pcre (mod, "" for none)
Clause(spec, kw, mod) == [spec |-> spec, kw |-> kw, mod |-> mod]

RenderClause(c) ==
  IF c.spec.kind = "pcre"
  THEN Render([c.spec EXCEPT !.mods = @ \o (IF c.mod = "" THEN <<>> ELSE <<c.mod>>)])
  ELSE Render(c.spec)
       \o (IF c.kw > 0 THEN <<" ">> \o separatorKeywords[c.kw] \o <<";">> ELSE <<>>)

RECURSIVE RenderClauses(_)
RenderClauses(cs) ==
  IF cs = <<>> THEN <<>> ELSE RenderClause(Head(cs)) \o <<" ">> \o RenderClauses(Tail(cs))

\* the option text of a rule; sid < 0 stands for a rule without sid
RenderRule(r) ==
  <<"m", "s", "g", ":", "\"", "m", "\"", ";", " ">> \o RenderClauses(r.clauses)
  \o (IF r.rawbytes THEN <<"r", "a", "w", "b", "y", "t", "e", "s", ";", " ">> ELSE <<>>)
  \o (IF r.sid >= 0 THEN <<"s", "i", "d", ":">> \o FormatNat(r.sid) \o <<";">> ELSE <<>>)

Clauses ==
  {Clause(Content(FALSE, FALSE, LitA, <<>>), kw, "") : kw \in 0..12}
  \cup {Clause(Content(FALSE, FALSE, LitA, <<Param(2, 0)>>), kw, "") : kw \in {0, 7}}
  \cup {Clause(BadContent, kw, "") : kw \in {0, 7}}
  \cup {Clause(Pcre(FALSE, <<"b">>, <<>>), 0, m) : m \in {""} \cup DOMAIN getSeparatorModifierIndices}
  \cup {Clause(BadPcre, 0, "")}

\* the clauses that follow another clause in a rule
SecondClauses ==
  {c \in Clauses : c.spec.kind \in {"pcre", "badpcre"} \/ c.kw = 7 \/ c.spec.kind = "badcontent"}

FirstRules ==
  {[sid |-> 7, rawbytes |-> FALSE, clauses |-> cs] :
     cs \in {<<c>> : c \in Clauses} \cup {<<c, d>> : c \in Clauses, d \in SecondClauses}}
  \cup {[sid |-> 7, rawbytes |-> TRUE, clauses |-> <<c>>] : c \in Clauses}

LaterRules ==
  { [sid |-> 18, rawbytes |-> FALSE,
     clauses |-> <<Clause(Content(FALSE, FALSE, LitA, <<>>), 7, "")>>],
    [sid |-> 18, rawbytes |-> FALSE,
     clauses |-> <<Clause(BadPcre, 0, ""), Clause(Content(FALSE, FALSE, LitHex, <<>>), 1, "")>>],
    [sid |-> -1, rawbytes |-> FALSE,
     clauses |-> <<Clause(Content(FALSE, FALSE, LitA, <<>>), 0, "")>>] }

RuleLists == {<<r>> : r \in FirstRules} \cup {<<r, s>> : r \in FirstRules, s \in LaterRules}

(***************************************************************************)
(* State.                                                                  *)
(***************************************************************************)
VARIABLES
  group,                \* the conditions of the buffer group being compiled
  patternVector,        \* getContentPattern's argument: their texts
  k,                    \* position of the iterator `pattern` (1-based)
  independentPatterns,  \* the vector of lines 147-257
  element,              \* the locals of the last loop iteration
  patternString,        \* the returned string
  pc,                   \* "loop", "done" or "failed" (exception thrown)
  err                   \* which std::runtime_error was thrown

cvars == <<group, patternVector, k, independentPatterns, element, patternString, pc, err>>

VARIABLES
  rules,           \* the rules of the rules files, by their fields
  allOptions,      \* what parseRulesFiles returned: their option texts
  writeFiles,      \* po.writeFiles()
  option,          \* position of the iterator `option` (1-based)
  sid,             \* the sid of the rule at hand
  contentVectors,  \* the map of lines 319-352
  pending,         \* the keys of contentVectors the loop of line 357 has not visited
  out,             \* the lines written, with their destination, in order
  errlog,          \* what the catch block reported on std::cerr
  mpc              \* "rule", "groups", "exit", "terminated" or "crashed"

mvars == <<rules, allOptions, writeFiles, option, sid, contentVectors, pending, out, errlog, mpc>>

vars == <<cvars, mvars>>

\* main is not running
MainIdle ==
  /\ rules = <<>>
  /\ allOptions = <<>>
  /\ writeFiles = FALSE
  /\ option = 1
  /\ sid = 0
  /\ contentVectors = <<>>
  /\ pending = {}
  /\ out = <<>>
  /\ errlog = <<>>
  /\ mpc = "idle"

\* getContentPattern is not being stepped through
CompileIdle ==
  /\ group = <<>>
  /\ patternVector = <<>>
  /\ k = 1
  /\ independentPatterns = <<>>
  /\ element = NoElement
  /\ patternString = <<>>
  /\ pc = "idle"
  /\ err = ""

(***************************************************************************)
(* getContentPattern, one loop iteration at a time.                        *)
(***************************************************************************)
Init ==
  /\ group \in Groups
  /\ patternVector = RenderAll(group)
  /\ k = 1
  /\ independentPatterns = <<>>
  /\ element = NoElement
  /\ patternString = <<>>
  /\ pc = "loop"
  /\ err = ""
  /\ MainIdle

\* one iteration of the loop of lines 148-258 that completes
LoopBody ==
  /\ pc = "loop"
  /\ k <= Len(patternVector)
  /\ \E e \in {patternElement(patternVector[k])} :
       /\ e.err = ""
       /\ element' = e
       /\ independentPatterns' = attach(independentPatterns, e)
  /\ k' = k + 1
  /\ UNCHANGED <<group, patternVector, patternString, pc, err>>
  /\ UNCHANGED mvars

\* an iteration that throws (lines 179, 199, 208, 246)
LoopThrow ==
  /\ pc = "loop"
  /\ k <= Len(patternVector)
  /\ \E e \in {patternElement(patternVector[k])} :
       /\ e.err # ""
       /\ element' = e
       /\ err' = e.err
  /\ pc' = "failed"
  /\ UNCHANGED <<group, patternVector, k, independentPatterns, patternString>>
  /\ UNCHANGED mvars

\* lines 260-270
Combine ==
  /\ pc = "loop"
  /\ k > Len(patternVector)
  /\ patternString' = combine(independentPatterns)
  /\ pc' = "done"
  /\ UNCHANGED <<group, patternVector, k, independentPatterns, element, err>>
  /\ UNCHANGED mvars

Next == LoopBody \/ LoopThrow \/ Combine

Spec == Init /\ [][Next]_vars

(***************************************************************************)
(* main, lines 310-393: one action per rule segmented and per buffer group *)
(* compiled.                                                               *)
(***************************************************************************)
InitMain ==
  /\ rules \in RuleLists
  /\ allOptions = [i \in 1..Len(rules) |-> RenderRule(rules[i])]
  /\ writeFiles \in BOOLEAN
  /\ option = 1
  /\ sid = 0
  /\ contentVectors = <<>>
  /\ pending = {}
  /\ out = <<>>
  /\ errlog = <<>>
  /\ mpc = "rule"
  /\ CompileIdle

\* lines 311-355: the sid is found and the option text is split into the
\* content vectors
Segment ==
  /\ mpc = "rule"
  /\ option <= Len(allOptions)
  /\ \E m \in {sidPattern(allOptions[option])} :
       /\ m.found
       /\ sid' = m.sid
  /\ \E cv \in {segmentLoop(allOptions[option], allOptions[option], <<>>)} :
       /\ contentVectors' = cv
       /\ pending' = DOMAIN cv
  /\ mpc' = "groups"
  /\ UNCHANGED <<rules, allOptions, writeFiles, option, out, errlog>>
  /\ UNCHANGED cvars

\* line 313: the exception is not caught, the program terminates
NoSid ==
  /\ mpc = "rule"
  /\ option <= Len(allOptions)
  /\ ~sidPattern(allOptions[option]).found
  /\ mpc' = "terminated"
  /\ UNCHANGED <<rules, allOptions, writeFiles, option, sid, contentVectors, pending, out, errlog>>
  /\ UNCHANGED cvars

\* lines 358-380: the next group compiles and its line is written
WriteGroup ==
  /\ mpc = "groups"
  /\ pending # {}
  /\ \E key \in {FirstKey(pending)} :
       \E r \in {getContentPattern(contentVectors[key])} :
         /\ r.err = ""
         /\ key[1] = 0 \/ key[1] \in rightKeys
         /\ out' = Append(out, record(writeFiles, outputFileOf(key), sid, r.patternString))
         /\ pending' = pending \ {key}
  /\ UNCHANGED <<rules, allOptions, writeFiles, option, sid, contentVectors, errlog, mpc>>
  /\ UNCHANGED cvars

\* line 363 for an index that is not in the bimap: right.find returns
\* end(), dereferencing it is undefined; the program crashes or goes on
\* with some string as the name
WriteGroupNoName ==
  /\ mpc = "groups"
  /\ pending # {}
  /\ \E key \in {FirstKey(pending)} :
       \E r \in {getContentPattern(contentVectors[key])} :
         /\ r.err = ""
         /\ key[1] > 0
         /\ key[1] \notin rightKeys
         /\ \/ /\ mpc' = "crashed"
               /\ UNCHANGED <<out, pending>>
            \/ /\ out' = Append(out, record(writeFiles, <<"?">>, sid, r.patternString))
               /\ pending' = pending \ {key}
               /\ UNCHANGED mpc
  /\ UNCHANGED <<rules, allOptions, writeFiles, option, sid, contentVectors, errlog>>
  /\ UNCHANGED cvars

\* lines 382-386: getContentPattern threw, the failure is reported
CatchGroup ==
  /\ mpc = "groups"
  /\ pending # {}
  /\ \E key \in {FirstKey(pending)} :
       \E r \in {getContentPattern(contentVectors[key])} :
         /\ r.err # ""
         /\ errlog' = Append(errlog, [sid |-> sid, what |-> r.err])
         /\ pending' = afterCatch(pending, key)
  /\ UNCHANGED <<rules, allOptions, writeFiles, option, sid, contentVectors, out, mpc>>
  /\ UNCHANGED cvars

\* the end of the loop of line 357: on to the next rule
EndRule ==
  /\ mpc = "groups"
  /\ pending = {}
  /\ option' = option + 1
  /\ mpc' = "rule"
  /\ UNCHANGED <<rules, allOptions, writeFiles, sid, contentVectors, pending, out, errlog>>
  /\ UNCHANGED cvars

\* lines 389-393
Exit ==
  /\ mpc = "rule"
  /\ option > Len(allOptions)
  /\ mpc' = "exit"
  /\ UNCHANGED <<rules, allOptions, writeFiles, option, sid, contentVectors, pending, out, errlog>>
  /\ UNCHANGED cvars

NextMain == Segment \/ NoSid \/ WriteGroup \/ WriteGroupNoName \/ CatchGroup \/ EndRule \/ Exit

SpecMain == InitMain /\ [][NextMain]_vars


(***************************************************************************)
(* Meaning of the emitted patterns.  The output is a PCRE pattern that is  *)
(* searched for in a buffer; Ends gives the positions at which a match of  *)
(* p that starts at position j of B can end, for the constructs the        *)
(* translator emits.  Buffers hold no newline, so "." matches every byte.  *)
(***************************************************************************)
MaxBufLen == 2

Range(s) == {s[i] : i \in DOMAIN s}

LowerOf(c) ==
  CASE c = "A" -> "a" [] c = "B" -> "b" [] c = "C" -> "c"
    [] c = "D" -> "d" [] c = "E" -> "e" [] c = "F" -> "f" [] OTHER -> c

ByteEq(c, b, ci) == IF ci THEN LowerOf(c) = LowerOf(b) ELSE c = b

\* the byte a \xHH escape stands for
HexByte(h) ==
  CASE h = <<"4", "1">> -> "A" [] h = <<"4", "2">> -> "B" [] OTHER -> "?"

\* position of the parenthesis closing a group, scanning from i inside it
RECURSIVE CloseParen(_, _, _)
CloseParen(p, i, depth) ==
  IF i > Len(p) THEN 0
  ELSE IF p[i] = "\\" THEN CloseParen(p, i + 2, depth)
  ELSE IF p[i] = "(" THEN CloseParen(p, i + 1, depth + 1)
  ELSE IF p[i] = ")"
       THEN IF depth = 1 THEN i ELSE CloseParen(p, i + 1, depth - 1)
  ELSE CloseParen(p, i + 1, depth)

\* the repetition that follows a "." at the head of p
DotRange(p, max) ==
  IF Len(p) >= 2 /\ p[2] = "*" THEN [lo |-> 0, hi |-> max, len |-> 2]
  ELSE IF Len(p) >= 2 /\ p[2] = "{"
  THEN LET cl == FindFrom(p, <<"}">>, 3)
           comma == FindFrom(p, <<",">>, 3)
       IN IF comma > 0 /\ comma < cl
          THEN [lo |-> ParseNat(SubSeq(p, 3, comma - 1)),
                hi |-> ParseNat(SubSeq(p, comma + 1, cl - 1)), len |-> cl]
          ELSE [lo |-> ParseNat(SubSeq(p, 3, cl - 1)),
                hi |-> ParseNat(SubSeq(p, 3, cl - 1)), len |-> cl]
  ELSE [lo |-> 1, hi |-> 1, len |-> 1]

RECURSIVE Ends(_, _, _, _)
Ends(p, B, j, ci) ==
  IF p = <<>> THEN {j}
  ELSE IF p[1] = "^" THEN (IF j = 0 THEN Ends(Tail(p), B, j, ci) ELSE {})
  ELSE IF p[1] = "("
  THEN LET cl == CloseParen(p, 2, 1)
           rest == Tail0(p, cl)
       IN IF p[3] = "="
          THEN (IF Ends(SubSeq(p, 4, cl - 1), B, j, ci) # {}
                THEN Ends(rest, B, j, ci) ELSE {})
          ELSE IF p[3] = "!"
          THEN (IF Ends(SubSeq(p, 4, cl - 1), B, j, ci) = {}
                THEN Ends(rest, B, j, ci) ELSE {})
          ELSE LET colon == FindFrom(p, <<":">>, 3)
                   inner == SubSeq(p, colon + 1, cl - 1)
                   ci2 == ci \/ "i" \in Range(SubSeq(p, 3, colon - 1))
               IN UNION {Ends(rest, B, e, ci) : e \in Ends(inner, B, j, ci2)}
  ELSE IF p[1] = "."
  THEN LET r == DotRange(p, Len(B))
           hi == IF r.hi < Len(B) - j THEN r.hi ELSE Len(B) - j
       IN UNION {Ends(Tail0(p, r.len), B, j + n, ci) : n \in r.lo..hi}
  ELSE LET n == IF p[1] # "\\" THEN 1 ELSE IF p[2] = "x" THEN 4 ELSE 2
           b == IF n = 1 THEN p[1] ELSE IF n = 2 THEN p[2] ELSE HexByte(SubSeq(p, 3, 4))
       IN IF j < Len(B) /\ ByteEq(B[j + 1], b, ci)
          THEN Ends(Tail0(p, n), B, j + 1, ci) ELSE {}

\* the pattern is found somewhere in the buffer
Matches(p, B) == \E j \in 0..Len(B) : Ends(p, B, j, FALSE) # {}

RECURSIVE Fill(_)
Fill(n) == IF n = 0 THEN <<>> ELSE <<"z">> \o Fill(n - 1)

\* a buffer that holds the bytes at position p and nowhere else
PlacedAt(bytes, p) == Fill(p) \o bytes \o Fill(1)

RECURSIVE BufSeqs(_)
BufSeqs(n) ==
  IF n = 0 THEN {<<>>}
  ELSE {<<>>} \cup {<<c>> \o s : c \in {"a", "b", "z"}, s \in BufSeqs(n - 1)}

Buffers == BufSeqs(MaxBufLen)

(***************************************************************************)
(* Vocabulary of the properties.                                           *)
(***************************************************************************)
\* the condition the last loop iteration worked on (0 before the first)
cur == IF pc = "failed" THEN k ELSE k - 1

WellFormed(c) == c.kind \in {"content", "pcre"}

HasParam(c, names) == \E i \in DOMAIN c.params : c.params[i].name \in names

HasNegParam(c) == \E i \in DOMAIN c.params : c.params[i].neg

ParamVal(c, names) ==
  LET I == {i \in DOMAIN c.params : c.params[i].name \in names}
  IN IF I = {} THEN 0 ELSE c.params[SetMax(I)].val

\* relative to its predecessor: distance/within, or the R modifier
IsRelative(c) ==
  \/ c.kind = "content" /\ HasParam(c, {3, 4})
  \/ c.kind = "pcre" /\ "R" \in Range(c.mods)

SemLen(c) == Len(LitBytes(c.lit))

StartsWith(s, lit) == OccursAt(s, 1, lit)

RECURSIVE Concat(_)
Concat(ss) == IF ss = <<>> THEN <<>> ELSE Head(ss) \o Concat(Tail(ss))


(***************************************************************************)
(* Properties of getContentPattern.                                        *)
(***************************************************************************)
NoRelative(g) == \A i \in DOMAIN g : ~IsRelative(g[i])

NoNegParam(g) == \A i \in DOMAIN g : ~HasNegParam(g[i])

\* C1: a group that yields n >= 2 independent elements P1..Pn compiles to
\* (?=.*P1)...(?=.*P(n-1)).*Pn; without relative links Pi is the element of
\* the i-th condition, so nothing is dropped, duplicated or reordered
C1_AndCombination ==
  (pc = "done" /\ Len(independentPatterns) >= 2) =>
    LET n == Len(independentPatterns)
    IN /\ patternString =
            Concat([i \in 1..(n - 1) |-> <<"(", "?", "=", ".", "*">> \o independentPatterns[i] \o <<")">>])
            \o <<".", "*">> \o independentPatterns[n]
       /\ NoRelative(group) =>
            /\ n = Len(group)
            /\ \A i \in 1..n :
                 independentPatterns[i] = patternElement(Render(group[i])).thisPattern

C1_Witness ==
  /\ pc = "done"
  /\ Len(group) >= 2
  /\ NoRelative(group)
  /\ Len(independentPatterns) = Len(group)
  /\ group[1] # group[2]

\* the literal-content conditions C2 speaks of: not relative, with an
\* offset o >= 0 and a depth d >= L
InWindow(c) ==
  /\ c.kind = "content"
  /\ ~HasNegParam(c)
  /\ ~IsRelative(c)
  /\ HasParam(c, {2})
  /\ ParamVal(c, {2}) >= SemLen(c)

MaxPos == MaxOffset + MaxDepth + 1

\* C2: the element of a non-relative literal with offset o and depth d >= L
\* is anchored at the buffer start, and it is found in a buffer that holds
\* the literal at position p exactly when o <= p <= o + d - L
C2_OffsetDepthWindow ==
  (cur >= 1 /\ pc # "failed" /\ InWindow(group[cur]) /\ ~group[cur].negated) =>
    LET c == group[cur]
        o == ParamVal(c, {1})
        d == ParamVal(c, {2})
    IN /\ StartsWith(element.thisPattern, IF c.nocase THEN <<"(", "?", "i", ":", "^">> ELSE <<"^">>)
       /\ \A p \in 0..MaxPos :
            Matches(element.thisPattern, PlacedAt(LitBytes(c.lit), p))
              <=> (o <= p /\ p <= o + d - SemLen(c))

C2_Witness ==
  /\ pc = "done"
  /\ cur = 1
  /\ InWindow(group[1])
  /\ ParamVal(group[1], {1}) = 1
  /\ ParamVal(group[1], {2}) = 3
  /\ SemLen(group[1]) = 2
  /\ Len(LitText(group[1].lit)) > 2

DeclaresDepth(c) == c.kind = "content" /\ ~HasNegParam(c) /\ HasParam(c, {2, 4})

\* C3: a literal-content condition with depth or within d and semantic
\* length L makes getContentPattern throw the depth error iff d < L
C3_DepthErrorIff ==
  (cur >= 1 /\ DeclaresDepth(group[cur])) =>
    ((pc = "failed" /\ err = "depth") <=> (ParamVal(group[cur], {2, 4}) < SemLen(group[cur])))

C3_Witness ==
  /\ pc = "failed"
  /\ err = "depth"
  /\ DeclaresDepth(group[cur])
  /\ ParamVal(group[cur], {2, 4}) = SemLen(group[cur]) - 1
  /\ ParamVal(group[cur], {1, 3}) > 0

C5_NegativeParamFails ==
  /\ (pc = "done") => NoNegParam(group)
  /\ (cur >= 1 /\ HasNegParam(group[cur])) => (pc = "failed" /\ err = "negative")

\* C6: for a single compilable condition S and every buffer B, the pattern
\* of the negated S matches B iff the pattern of the plain S does not
C6_NegationRoundTrip ==
  (pc = "done" /\ Len(group) = 1 /\ group[1].negated) =>
    LET plain == getContentPattern(<<Render([group[1] EXCEPT !.negated = FALSE])>>)
    IN \A B \in Buffers :
         Matches(patternString, B) <=> ~Matches(plain.patternString, B)

\* C8: a relative condition that has a predecessor in its group is appended
\* to the text of the last independent element, emits no start anchor and
\* adds no element; so the elements number the non-relative conditions,
\* plus one when the first condition is relative
C8_RelativeAttachment ==
  [][(pc = "loop" /\ k' = k + 1 /\ NoNegParam(group)) =>
       LET n == Len(independentPatterns)
           c == group[k]
       IN /\ IF IsRelative(c) /\ k > 1
             THEN /\ Len(independentPatterns') = n
                  /\ \A i \in 1..(n - 1) : independentPatterns'[i] = independentPatterns[i]
                  /\ independentPatterns'[n] = independentPatterns[n] \o element'.thisPattern
                  /\ "^" \notin Range(element'.thisPattern)
             ELSE /\ Len(independentPatterns') = n + 1
                  /\ SubSeq(independentPatterns', 1, n) = independentPatterns
          /\ Len(independentPatterns') =
               Cardinality({i \in 1..k : ~IsRelative(group[i])})
               + (IF IsRelative(group[1]) THEN 1 ELSE 0)]_vars

C8_Witness ==
  /\ pc = "done"
  /\ Len(group) = 2
  /\ NoNegParam(group)
  /\ IsRelative(group[2])
  /\ group[2].kind = "content"
  /\ Len(independentPatterns) = 1

\* the modifier-wrapped text of a pattern condition, from its fields
Wrapped(c) ==
  LET mods == SelectSeq(c.mods, LAMBDA m : m # "R")
  IN IF mods # <<>> THEN <<"(", "?">> \o mods \o <<":">> \o c.pattern \o <<")">> ELSE c.pattern

NegWrapped(c, p) == IF c.negated THEN <<"(", "?", "!">> \o p \o <<")">> ELSE p

\* C10 as stated: the element of a non-relative pattern condition is its
\* modifier-wrapped text prefixed with .*, the prefix inside the negation;
\* a group of one such plain condition compiles to a string starting with .*
C10_DotStarPrefix ==
  (cur >= 1 /\ pc # "failed" /\ group[cur].kind = "pcre" /\ ~IsRelative(group[cur])) =>
    /\ element.thisPattern = NegWrapped(group[cur], <<".", "*">> \o Wrapped(group[cur]))
    /\ (pc = "done" /\ Len(group) = 1 /\ ~group[1].negated) =>
         StartsWith(patternString, <<".", "*">>)

\* C10 as amended: the element is the modifier-wrapped text with no prefix
\* of its own (negation wrapped around it); a group of one such plain
\* condition compiles to exactly that text
C10_NoPrefix ==
  (cur >= 1 /\ pc # "failed" /\ group[cur].kind = "pcre" /\ ~IsRelative(group[cur])) =>
    /\ element.thisPattern = NegWrapped(group[cur], Wrapped(group[cur]))
    /\ (pc = "done" /\ Len(group) = 1 /\ ~group[1].negated) =>
         patternString = Wrapped(group[1])

C10_Witness ==
  /\ pc = "done"
  /\ group = <<Pcre(FALSE, <<"b">>, <<"i">>)>>
  /\ patternString = <<"(", "?", "i", ":", "b", ")">>


(***************************************************************************)
(* Properties of main.                                                     *)
(***************************************************************************)
\* the buffer key of every clause of an option text, in clause order
RECURSIVE clauseKeys(_, _)
clauseKeys(text, whole) ==
  LET c == clausePattern(text)
  IN IF text = <<>> \/ ~c.found THEN <<>>
     ELSE LET a == classify(c.type, c.thisContent, whole)
          IN <<<<a.index, a.isRaw>>>> \o clauseKeys(c.rest, whole)

\* the conditions on which getContentPattern throws
Throws(s) ==
  \/ s.kind \in {"badcontent", "badpcre"}
  \/ DeclaresDepth(s) /\ ParamVal(s, {2, 4}) < SemLen(s)

RECURSIVE Pick(_, _, _)
Pick(cs, keys, bad) ==
  IF cs = <<>> THEN <<>>
  ELSE (IF Head(keys) \in bad THEN <<>> ELSE <<Head(cs)>>) \o Pick(Tail(cs), Tail(keys), bad)

\* the rule without the clauses of its failing buffer groups
WithoutFailing(r) ==
  LET keys == clauseKeys(RenderRule(r), RenderRule(r))
      bad == {keys[i] : i \in {j \in DOMAIN r.clauses : Throws(r.clauses[j].spec)}}
  IN [r EXCEPT !.clauses = Pick(r.clauses, keys, bad)]

NameOf(key) == IF key[1] = 0 \/ key[1] \in rightKeys THEN outputFileOf(key) ELSE <<"?">>

RECURSIVE RecordsOf(_, _, _, _)
RecordsOf(wf, s, cv, keys) ==
  IF keys = {} THEN <<>>
  ELSE LET key == FirstKey(keys)
       IN <<record(wf, NameOf(key), s, getContentPattern(cv[key]).patternString)>>
          \o RecordsOf(wf, s, cv, keys \ {key})

\* what a rule in which no group fails writes
CleanRecords(wf, r) ==
  LET text == RenderRule(r)
      cv == segmentLoop(text, text, <<>>)
  IN RecordsOf(wf, r.sid, cv, DOMAIN cv)

IsPrefix(s, u) == Len(s) <= Len(u) /\ SubSeq(u, 1, Len(s)) = s

\* C7: when groups fail to compile, what is written for the other groups of
\* the rule and for the later rules is what would be written were the
\* failing groups absent, and a failing group writes nothing
C7_ErrorIsolation ==
  LET expected == Concat([i \in 1..Len(rules) |->
                            CleanRecords(writeFiles, WithoutFailing(rules[i]))])
  IN /\ (mpc = "exit") => (out = expected)
     /\ (mpc = "rule" /\ \A i \in 1..Len(rules) : rules[i].sid >= 0) => IsPrefix(out, expected)

C7_Witness ==
  /\ mpc = "exit"
  /\ Len(rules) = 2
  /\ Len(errlog) = 2
  /\ Len(out) = 2
  /\ out[1].sid = 7
  /\ out[2].sid = 18
  /\ errlog[1].what = "depth"
  /\ errlog[2].what = "pcre"

\* C9: a pcre clause with the modifier character of a selector keyword gets
\* the buffer index of a content clause with that keyword, and that index
\* has a buffer name
C9_ModifierMatchesKeyword ==
  (mpc = "groups" /\ Len(rules[option].clauses) = 2) =>
    LET c == rules[option].clauses[1]
        p == rules[option].clauses[2]
    IN (/\ c.spec.kind = "content"
        /\ c.kw > 0
        /\ separatorModifiers[c.kw] # ""
        /\ p.spec.kind = "pcre"
        /\ p.mod = separatorModifiers[c.kw]) =>
         \A a, b \in DOMAIN contentVectors : a[1] = b[1] /\ a[1] \in rightKeys

=============================================================================
